---- MODULE Spec2Model ----
(***************************************************************************)
(* A model of gamesheet_core: the Sheet engine (entries, compiled scripts, *)
(* static dependency lists, value cache), its operations parse,            *)
(* insert_entry, insert_prelude, build_entry, build_prelude, eval,         *)
(* invalidate_cache, check_for_cycles, and the layered composition         *)
(* implemented for slices of engines.                                      *)
(*                                                                         *)
(* Scripts are drawn from a small family of Rhai programs:                 *)
(*     <syntax error>     k     helper(1)     g("d")     g("d") + g("e")   *)
(* where helper is a function the prelude defines (fn helper(x) { x*m }).  *)
(* Every lookup is a literal-string call of g, the only kind build_entry   *)
(* records as a dependency.                                                *)
(*                                                                         *)
(* DashMap iterates in an order fixed by a per-map random hash seed, so    *)
(* every loop over a DashMap is modelled as a choice among all orders.     *)
(***************************************************************************)
EXTENDS Integers, Sequences, FiniteSets, TLC

Names == {"a", "b", "c"}

Pairs == {<<"a", "b">>}

MaxConst == 1

MaxMult == 3

----------------------------------------------------------------------------
(* Script texts, the compiler and the values scripts produce.              *)

Script(ok, lits, k, pre) == [ok |-> ok, lits |-> lits, k |-> k, pre |-> pre]

BadText == Script(FALSE, <<>>, 0, FALSE)

Scripts ==
    {BadText}
    \cup {Script(TRUE, <<>>, k, FALSE) : k \in 1..MaxConst}
    \cup {Script(TRUE, <<>>, 1, TRUE)}
    \cup {Script(TRUE, <<d>>, 0, FALSE) : d \in Names}
    \cup {Script(TRUE, pr, 0, FALSE) : pr \in Pairs}

PreludeText(ok, mult) == [ok |-> ok, mult |-> mult]

PreludeScripts ==
    {PreludeText(FALSE, 0)} \cup {PreludeText(TRUE, m) : m \in 2..MaxMult}

\* Engine::compile on an entry script: a ParseError, or the AST
compile(text) ==
    IF text.ok
    THEN [ok |-> TRUE, ast |-> [lits |-> text.lits, k |-> text.k, pre |-> text.pre]]
    ELSE [ok |-> FALSE, ast |-> [lits |-> <<>>, k |-> 0, pre |-> FALSE]]

\* Engine::compile on a prelude script: a ParseError, or the AST holding helper
compile_prelude(text) ==
    IF text.ok
    THEN [ok |-> TRUE, ast |-> [some |-> TRUE, mult |-> text.mult]]
    ELSE [ok |-> FALSE, ast |-> [some |-> FALSE, mult |-> 0]]

NoAst == [some |-> FALSE, mult |-> 0]

\* the AST walk of build_entry: first arguments of calls of g that are
\* string constants, in source order
walk_deps(ast) == ast.lits

IntVal(n) == [unit |-> FALSE, num |-> n]

UnitVal == [unit |-> TRUE, num |-> 0]

Res(err, who, val) == [err |-> err, who |-> who, val |-> val]

OkRes(val) == Res("Ok", "", val)

OkUnit == OkRes(UnitVal)

Range(s) == {s[i] : i \in DOMAIN s}

\* DashMap::insert and DashMap::remove on a map held as a function
Put(m, key, v) == [x \in DOMAIN m \cup {key} |-> IF x = key THEN v ELSE m[x]]

Remove(m, key) == [x \in DOMAIN m \ {key} |-> m[x]]

EmptyMap == [x \in {} |-> 0]

----------------------------------------------------------------------------
(* The GameSheet trait on one Sheet.                                       *)

dependencies(sh, name) ==
    IF name \in DOMAIN sh.deps THEN sh.deps[name] ELSE <<>>

dependents(sh, name) ==
    {p \in DOMAIN sh.deps : name \in Range(sh.deps[p])}

entries(sh) == DOMAIN sh.entries

get_source(sh, name) ==
    IF name \in DOMAIN sh.entries
    THEN [some |-> TRUE, text |-> sh.entries[name]]
    ELSE [some |-> FALSE, text |-> BadText]

RECURSIVE check_for_cycles_inner(_, _)
check_for_cycles_inner(sh, history) ==
    LET next_nodes == dependencies(sh, history[Len(history)])
    IN  IF \E i \in DOMAIN history : history[i] \in Range(next_nodes)
        THEN TRUE
        ELSE \E j \in DOMAIN next_nodes :
                check_for_cycles_inner(sh, Append(history, next_nodes[j]))

check_for_cycles(sh, start_at) == check_for_cycles_inner(sh, <<start_at>>)

\* Sheet::invalidate_cache.  The result is the set of outcomes, one for each
\* order in which the loop over deps can meet the dependents of name; the
\* first Err ends the whole traversal.
RECURSIVE invalidate_cache(_, _, _)
RECURSIVE invalidate_loop(_, _, _, _)
\* a variant that passes over a dependent found among the parents
invalidate_loop_no_error(sh, rest, bad_parents, parents) ==
    IF rest = {}
    THEN {[sheet |-> sh, res |-> OkUnit]}
    ELSE UNION {
            IF dependent \in Range(bad_parents)
            THEN invalidate_loop(sh, rest \ {dependent}, bad_parents, parents)
            ELSE UNION {
                    invalidate_loop(r.sheet, rest \ {dependent}, bad_parents, parents)
                    : r \in invalidate_cache(sh, dependent, parents) }
            : dependent \in rest }

invalidate_loop(sh, rest, bad_parents, parents) ==
    IF rest = {}
    THEN {[sheet |-> sh, res |-> OkUnit]}
    ELSE UNION {
            IF dependent \in Range(bad_parents)
            THEN {[sheet |-> sh, res |-> Res("CyclicDependency", dependent, UnitVal)]}
            ELSE UNION {
                    IF r.res.err = "Ok"
                    THEN invalidate_loop(r.sheet, rest \ {dependent}, bad_parents, parents)
                    ELSE {r}
                    : r \in invalidate_cache(sh, dependent, parents) }
            : dependent \in rest }

\* the deepest recursion a traversal is followed to; a traversal that gets
\* deeper is cut there and reported as deeper than the bound
MaxDepth == 8

Max(x, y) == IF x >= y THEN x ELSE y

\* check_for_cycles_inner with the depth of its recursion: the length of
\* the longest history it is called with
RECURSIVE check_for_cycles_depth(_, _)
RECURSIVE check_for_cycles_nodes(_, _, _, _, _)
check_for_cycles_nodes(sh, history, next_nodes, j, deepest) ==
    IF j > Len(next_nodes)
    THEN [found |-> FALSE, depth |-> deepest]
    ELSE LET r == check_for_cycles_depth(sh, Append(history, next_nodes[j]))
             d == Max(deepest, r.depth)
         IN  IF r.found
             THEN [found |-> TRUE, depth |-> d]
             ELSE check_for_cycles_nodes(sh, history, next_nodes, j + 1, d)

\* a variant that compares the next nodes with the start node only
check_for_cycles_start_only(sh, history) ==
    LET next_nodes == dependencies(sh, history[Len(history)])
    IN  IF Len(history) > MaxDepth
        THEN [found |-> FALSE, depth |-> Len(history)]
        ELSE IF history[1] \in Range(next_nodes)
             THEN [found |-> TRUE, depth |-> Len(history)]
             ELSE check_for_cycles_nodes(sh, history, next_nodes, 1, Len(history))

check_for_cycles_depth(sh, history) ==
    LET next_nodes == dependencies(sh, history[Len(history)])
    IN  IF Len(history) > MaxDepth
        THEN [found |-> FALSE, depth |-> Len(history)]
        ELSE IF \E i \in DOMAIN history : history[i] \in Range(next_nodes)
             THEN [found |-> TRUE, depth |-> Len(history)]
             ELSE check_for_cycles_nodes(sh, history, next_nodes, 1, Len(history))

\* Sheet::invalidate_cache with the depth of its recursion, the length of
\* the longest parents it builds, for each order of the loop over deps
RECURSIVE invalidate_cache_depth(_, _, _)
RECURSIVE invalidate_loop_depth(_, _, _, _, _)
invalidate_loop_depth(sh, rest, bad_parents, parents, deepest) ==
    IF rest = {}
    THEN {[err |-> FALSE, depth |-> deepest]}
    ELSE UNION {
            IF dependent \in Range(bad_parents)
            THEN {[err |-> TRUE, depth |-> deepest]}
            ELSE UNION {
                    IF r.err
                    THEN {[err |-> TRUE, depth |-> Max(deepest, r.depth)]}
                    ELSE invalidate_loop_depth(sh, rest \ {dependent}, bad_parents,
                                               parents, Max(deepest, r.depth))
                    : r \in invalidate_cache_depth(sh, dependent, parents) }
            : dependent \in rest }

invalidate_cache_depth(sh, name, bad_parents) ==
    LET parents == Append(bad_parents, name)
    IN  IF Len(parents) > MaxDepth
        THEN {[err |-> TRUE, depth |-> Len(parents)]}
        ELSE invalidate_loop_depth(sh, dependents(sh, name), bad_parents,
                                   parents, Len(parents))

\* a variant that forgets the dependents
invalidate_cache_no_cascade(sh, name, bad_parents) ==
    {[sheet |-> [sh EXCEPT !.cache = Remove(sh.cache, name)], res |-> OkUnit]}

invalidate_cache(sh, name, bad_parents) ==
    LET removed == [sh EXCEPT !.cache = Remove(sh.cache, name)]
        parents == Append(bad_parents, name)
    IN  invalidate_loop(removed, dependents(sh, name), bad_parents, parents)

\* AST::merge of the prelude AST ahead of an entry AST
merge(prelude_ast, ast) ==
    [mult |-> prelude_ast.mult, lits |-> ast.lits, k |-> ast.k, pre |-> ast.pre]

\* what Engine::eval_ast returns for a merged AST once the values of its
\* lookups are known
finish_ast(ast, vals) ==
    IF Len(ast.lits) = 0
    THEN OkRes(IntVal(IF ast.pre THEN ast.k * ast.mult ELSE ast.k))
    ELSE IF Len(ast.lits) = 1
         THEN OkRes(vals[1])
         ELSE IF vals[1].unit \/ vals[2].unit
              THEN Res("EvalFailure", "", UnitVal)
              ELSE OkRes(IntVal(vals[1].num + vals[2].num))

\* Sheet::eval, the registered function g that calls back into it, and
\* Engine::eval_ast on a merged AST.  Each returns the sheet (only its cache
\* can differ), the result, and the names whose scripts were executed.
RECURSIVE eval(_, _)
g(sh, name) ==
    LET r == eval(sh, name)
    IN  [sheet |-> r.sheet,
         val |-> IF r.res.err = "Ok" THEN r.res.val ELSE UnitVal,
         ran |-> r.ran]

eval_ast(sh, ast) ==
    IF Len(ast.lits) = 0
    THEN [sheet |-> sh,
          res |-> OkRes(IntVal(IF ast.pre THEN ast.k * ast.mult ELSE ast.k)),
          ran |-> <<>>]
    ELSE LET r1 == g(sh, ast.lits[1])
         IN  IF Len(ast.lits) = 1
             THEN [sheet |-> r1.sheet, res |-> OkRes(r1.val), ran |-> r1.ran]
             ELSE LET r2 == g(r1.sheet, ast.lits[2])
                  IN  [sheet |-> r2.sheet,
                       res |-> IF r1.val.unit \/ r2.val.unit
                               THEN Res("EvalFailure", "", UnitVal)
                               ELSE OkRes(IntVal(r1.val.num + r2.val.num)),
                       ran |-> r1.ran \o r2.ran]

\* a variant that looks in the cache before it checks for cycles
eval_cache_first(sh, name) ==
    IF name \in DOMAIN sh.cache
    THEN [sheet |-> sh, res |-> OkRes(sh.cache[name]), ran |-> <<>>]
    ELSE IF check_for_cycles(sh, name)
    THEN [sheet |-> sh, res |-> Res("CyclicDependency", name, UnitVal), ran |-> <<>>]
    ELSE IF name \in DOMAIN sh.asts
    THEN LET run == eval_ast(sh, merge(sh.prelude_ast, sh.asts[name]))
         IN  IF run.res.err = "Ok"
             THEN [sheet |-> [run.sheet EXCEPT
                                !.cache = Put(run.sheet.cache, name, run.res.val)],
                   res |-> run.res,
                   ran |-> <<name>> \o run.ran]
             ELSE [sheet |-> run.sheet, res |-> run.res, ran |-> <<name>> \o run.ran]
    ELSE [sheet |-> sh, res |-> Res("BadDependency", name, UnitVal), ran |-> <<>>]

\* a variant that caches the unit value when the script fails
eval_cache_failure(sh, name) ==
    IF check_for_cycles(sh, name)
    THEN [sheet |-> sh, res |-> Res("CyclicDependency", name, UnitVal), ran |-> <<>>]
    ELSE IF name \in DOMAIN sh.cache
    THEN [sheet |-> sh, res |-> OkRes(sh.cache[name]), ran |-> <<>>]
    ELSE IF name \in DOMAIN sh.asts
    THEN LET run == eval_ast(sh, merge(sh.prelude_ast, sh.asts[name]))
         IN  [sheet |-> [run.sheet EXCEPT
                           !.cache = Put(run.sheet.cache, name, run.res.val)],
              res |-> run.res,
              ran |-> <<name>> \o run.ran]
    ELSE [sheet |-> sh, res |-> Res("BadDependency", name, UnitVal), ran |-> <<>>]

\* a variant that never answers from the cache
eval_no_cache(sh, name) ==
    IF check_for_cycles(sh, name)
    THEN [sheet |-> sh, res |-> Res("CyclicDependency", name, UnitVal), ran |-> <<>>]
    ELSE IF name \in DOMAIN sh.asts
    THEN LET run == eval_ast(sh, merge(sh.prelude_ast, sh.asts[name]))
         IN  IF run.res.err = "Ok"
             THEN [sheet |-> [run.sheet EXCEPT
                                !.cache = Put(run.sheet.cache, name, run.res.val)],
                   res |-> run.res,
                   ran |-> <<name>> \o run.ran]
             ELSE [sheet |-> run.sheet, res |-> run.res, ran |-> <<name>> \o run.ran]
    ELSE [sheet |-> sh, res |-> Res("BadDependency", name, UnitVal), ran |-> <<>>]

eval(sh, name) ==
    IF check_for_cycles(sh, name)
    THEN [sheet |-> sh, res |-> Res("CyclicDependency", name, UnitVal), ran |-> <<>>]
    ELSE IF name \in DOMAIN sh.cache
    THEN [sheet |-> sh, res |-> OkRes(sh.cache[name]), ran |-> <<>>]
    ELSE IF name \in DOMAIN sh.asts
    THEN LET run == eval_ast(sh, merge(sh.prelude_ast, sh.asts[name]))
         IN  IF run.res.err = "Ok"
             THEN [sheet |-> [run.sheet EXCEPT
                                !.cache = Put(run.sheet.cache, name, run.res.val)],
                   res |-> run.res,
                   ran |-> <<name>> \o run.ran]
             ELSE [sheet |-> run.sheet, res |-> run.res, ran |-> <<name>> \o run.ran]
    ELSE [sheet |-> sh, res |-> Res("BadDependency", name, UnitVal), ran |-> <<>>]

----------------------------------------------------------------------------
(* The mutating operations of Sheet.                                       *)

\* a variant that takes back the compiled form and the deps list when the
\* invalidation fails
build_entry_rollback(sh, name) ==
    IF name \in DOMAIN sh.entries /\ compile(sh.entries[name]).ok
    THEN LET c == compile(sh.entries[name])
             built == [sh EXCEPT
                         !.asts = Put(sh.asts, name, c.ast),
                         !.deps = Put(sh.deps, name, walk_deps(c.ast))]
         IN  {IF r.res.err = "Ok" THEN r ELSE [sheet |-> sh, res |-> r.res] :
                r \in invalidate_cache(built, name, <<>>)}
    ELSE {[sheet |-> sh, res |-> OkUnit]}

\* Sheet::build_entry: the set of outcomes (see invalidate_cache)
build_entry(sh, name) ==
    IF name \in DOMAIN sh.entries
    THEN LET c == compile(sh.entries[name])
         IN  IF ~c.ok
             THEN {[sheet |-> sh, res |-> Res("BadScript", name, UnitVal)]}
             ELSE LET built == [sh EXCEPT
                                  !.asts = Put(sh.asts, name, c.ast),
                                  !.deps = Put(sh.deps, name, walk_deps(c.ast))]
                  IN  invalidate_cache(built, name, <<>>)
    ELSE {[sheet |-> sh, res |-> OkUnit]}

\* a variant that stores the script before it has compiled
insert_entry_commit_first(sh, name, script) ==
    LET stored == [sh EXCEPT !.entries = Put(sh.entries, name, script)]
    IN  IF compile(script).ok
        THEN build_entry(stored, name)
        ELSE {[sheet |-> stored, res |-> Res("BadScript", name, UnitVal)]}

\* a variant that refuses a script referring to a name that has no entry
insert_entry_checked(sh, name, script) ==
    IF ~compile(script).ok
    THEN {[sheet |-> sh, res |-> Res("BadScript", name, UnitVal)]}
    ELSE IF \E d \in Range(walk_deps(compile(script).ast)) :
                d \notin DOMAIN sh.entries \cup {name}
         THEN {[sheet |-> sh, res |-> Res("BadDependency", name, UnitVal)]}
         ELSE build_entry([sh EXCEPT !.entries = Put(sh.entries, name, script)], name)

\* Sheet::insert_entry
insert_entry(sh, name, script) ==
    IF compile(script).ok
    THEN build_entry([sh EXCEPT !.entries = Put(sh.entries, name, script)], name)
    ELSE {[sheet |-> sh, res |-> Res("BadScript", name, UnitVal)]}

\* a variant that keeps the cache
build_prelude_keep_cache(sh) ==
    LET c == compile_prelude(sh.prelude)
    IN  IF c.ok
        THEN [sheet |-> [sh EXCEPT !.prelude_ast = c.ast], res |-> OkUnit]
        ELSE [sheet |-> sh, res |-> Res("BadScript", "", UnitVal)]

\* Sheet::build_prelude
build_prelude(sh) ==
    LET c == compile_prelude(sh.prelude)
    IN  IF c.ok
        THEN [sheet |-> [sh EXCEPT !.prelude_ast = c.ast, !.cache = EmptyMap],
              res |-> OkUnit]
        ELSE [sheet |-> sh, res |-> Res("BadScript", "", UnitVal)]

\* Sheet::insert_prelude
insert_prelude(sh, script) ==
    build_prelude([sh EXCEPT !.prelude = script])

\* serde_yaml::from_str into Sheet: the skipped fields take their defaults
from_str(doc) ==
    [prelude |-> doc.prelude, prelude_ast |-> NoAst, entries |-> doc.entries,
     asts |-> EmptyMap, deps |-> EmptyMap, cache |-> EmptyMap]

\* the loop of parse that builds every entry, in any iteration order
RECURSIVE build_all(_, _)
build_all(sh, rest) ==
    IF rest = {}
    THEN {[sheet |-> sh, res |-> OkUnit]}
    ELSE UNION {
            UNION { IF r.res.err = "Ok"
                    THEN build_all(r.sheet, rest \ {p})
                    ELSE {r}
                    : r \in build_entry(sh, p) }
            : p \in rest }

\* a variant that confirms nothing
confirm_deps_skipped(sh) == {[sheet |-> sh, res |-> OkUnit]}

\* the loop of parse that confirms every dependency exists: the first
\* missing one met is reported
confirm_deps(sh) ==
    LET missing == {dep \in UNION {Range(sh.deps[p]) : p \in DOMAIN sh.deps} :
                        dep \notin DOMAIN sh.entries}
    IN  IF missing = {}
        THEN {[sheet |-> sh, res |-> OkUnit]}
        ELSE {[sheet |-> sh, res |-> Res("BadDependency", dep, UnitVal)] : dep \in missing}

\* Sheet::parse: the set of outcomes; an outcome with an Err returns no engine
parse(doc) ==
    LET pre == build_prelude(from_str(doc))
    IN  IF pre.res.err # "Ok"
        THEN {pre}
        ELSE UNION { IF r.res.err = "Ok" THEN confirm_deps(r.sheet) ELSE {r}
                     : r \in build_all(pre.sheet, DOMAIN pre.sheet.entries) }

----------------------------------------------------------------------------
(* The GameSheet trait on a slice of engines, lowest priority first.       *)

\* a variant that tries the layers lowest priority first
RECURSIVE stack_eval_forward(_, _, _)
stack_eval_forward(shs, name, i) ==
    IF i = 0 \/ i > Len(shs)
    THEN [sheets |-> shs, res |-> Res("BadDependency", name, UnitVal),
          layer |-> 0, ran |-> <<>>]
    ELSE LET j == Len(shs) + 1 - i
             r == eval(shs[j], name)
             tried == [shs EXCEPT ![j] = r.sheet]
         IN  IF r.res.err = "Ok"
             THEN [sheets |-> tried, res |-> r.res, layer |-> j, ran |-> r.ran]
             ELSE LET rest == stack_eval_forward(tried, name, i - 1)
                  IN  [rest EXCEPT !.ran = r.ran \o rest.ran]

\* <[S] as GameSheet>::eval from layer i downwards: the first Ok is
\* returned, the Err of a layer is dropped
RECURSIVE stack_eval_from(_, _, _)
stack_eval_from(shs, name, i) ==
    IF i = 0
    THEN [sheets |-> shs, res |-> Res("BadDependency", name, UnitVal),
          layer |-> 0, ran |-> <<>>]
    ELSE LET r == eval(shs[i], name)
             tried == [shs EXCEPT ![i] = r.sheet]
         IN  IF r.res.err = "Ok"
             THEN [sheets |-> tried, res |-> r.res, layer |-> i, ran |-> r.ran]
             ELSE LET rest == stack_eval_from(tried, name, i - 1)
                  IN  [rest EXCEPT !.ran = r.ran \o rest.ran]

stack_eval(shs, name) == stack_eval_from(shs, name, Len(shs))

\* a variant that asks the layers lowest priority first
RECURSIVE stack_dependencies_forward(_, _, _)
stack_dependencies_forward(shs, name, i) ==
    IF i = 0 \/ i > Len(shs)
    THEN <<>>
    ELSE LET j == Len(shs) + 1 - i
         IN  IF name \in entries(shs[j])
             THEN dependencies(shs[j], name)
             ELSE stack_dependencies_forward(shs, name, i - 1)

\* <[S] as GameSheet>::dependencies from layer i downwards: the first layer
\* whose entries hold the name answers
RECURSIVE stack_dependencies_from(_, _, _)
stack_dependencies_from(shs, name, i) ==
    IF i = 0
    THEN <<>>
    ELSE IF name \in entries(shs[i])
         THEN dependencies(shs[i], name)
         ELSE stack_dependencies_from(shs, name, i - 1)

stack_dependencies(shs, name) == stack_dependencies_from(shs, name, Len(shs))

\* the vectors a map iteration can collect from a set of names
Orders(S) ==
    {v \in UNION {[1..n -> S] : n \in {Cardinality(S)}} : Range(v) = S}

\* <[S] as GameSheet>::dependents from layer i downwards, as the set of
\* vectors the answering layer can return
RECURSIVE stack_dependents_from(_, _, _)
stack_dependents_from(shs, name, i) ==
    IF i = 0
    THEN {<<>>}
    ELSE IF name \in entries(shs[i])
         THEN Orders(dependents(shs[i], name))
         ELSE stack_dependents_from(shs, name, i - 1)

stack_dependents(shs, name) == stack_dependents_from(shs, name, Len(shs))

\* <[S] as GameSheet>::invalidate_cache from layer i upwards: the `?`
\* returns the Err of a layer before the layers after it are visited
RECURSIVE stack_invalidate_from(_, _, _, _)
stack_invalidate_from(shs, name, bad_parents, i) ==
    IF i > Len(shs)
    THEN {[sheets |-> shs, res |-> OkUnit]}
    ELSE UNION {
           LET visited == [shs EXCEPT ![i] = r.sheet]
           IN  IF r.res.err = "Ok"
               THEN stack_invalidate_from(visited, name, bad_parents, i + 1)
               ELSE {[sheets |-> visited, res |-> r.res]} :
           r \in invalidate_cache(shs[i], name, bad_parents)}

stack_invalidate_cache(shs, name, bad_parents) ==
    stack_invalidate_from(shs, name, bad_parents, 1)

----------------------------------------------------------------------------
(* The state: the engines constructed so far (lowest priority first),      *)
(* what the last call was, what it returned and which scripts it executed, *)
(* the list the last listing call returned, and, where threads share an    *)
(* engine, the locks and every thread's position in its call.              *)

VARIABLES sheets, ret, ran, out, conc

vars == <<sheets, ret, ran, out, conc>>

\* no thread is inside a call, no lock is held
NoConc == [policy |-> "none", threads |-> <<>>]

\* a call made by the one thread that owns the engines; it returns no list
Sequential == out' = <<>> /\ conc' = conc

NoPrelude == PreludeText(FALSE, 0)

Doc(prelude, ents) == [prelude |-> prelude, entries |-> ents]

NoDoc == Doc(NoPrelude, EmptyMap)

\* serde_yaml::to_string of a Sheet: the prelude text and the entry
\* scripts are written, the skipped fields are not
to_string(sh) == Doc(sh.prelude, sh.entries)

\* the definition documents: a prelude and a name -> script mapping
Docs ==
    {Doc(p, e) : p \in PreludeScripts,
                 e \in UNION {[D -> Scripts] : D \in SUBSET Names}}

Call(op, layer, name, script, prelude, doc, res) ==
    [op |-> op, layer |-> layer, name |-> name, script |-> script,
     prelude |-> prelude, doc |-> doc, res |-> res]

Init ==
    /\ sheets = <<>>
    /\ ret = Call("none", 0, "", BadText, NoPrelude, NoDoc, OkUnit)
    /\ ran = <<>>
    /\ out = <<>>
    /\ conc = NoConc

\* Sheet::parse(doc): the engine is constructed, or an error and no engine
Parse(doc) ==
    /\ sheets = <<>>
    /\ ret.op = "none"
    /\ \E r \in parse(doc) :
          /\ sheets' = IF r.res.err = "Ok" THEN <<r.sheet>> ELSE <<>>
          /\ ret' = Call("parse", 1, "", BadText, NoPrelude, doc, r.res)
    /\ ran' = <<>>
    /\ Sequential

\* sheet.eval(name)
Eval(i, name) ==
    /\ i \in DOMAIN sheets
    /\ LET r == eval(sheets[i], name)
       IN  /\ sheets' = [sheets EXCEPT ![i] = r.sheet]
           /\ ret' = Call("eval", i, name, BadText, NoPrelude, NoDoc, r.res)
           /\ ran' = r.ran
    /\ Sequential

\* sheet.insert_entry(name, script)
InsertEntry(i, name, script) ==
    /\ i \in DOMAIN sheets
    /\ \E r \in insert_entry(sheets[i], name, script) :
          /\ sheets' = [sheets EXCEPT ![i] = r.sheet]
          /\ ret' = Call("insert_entry", i, name, script, NoPrelude, NoDoc, r.res)
    /\ ran' = <<>>
    /\ Sequential

\* sheet.insert_prelude(script)
InsertPrelude(i, script) ==
    /\ i \in DOMAIN sheets
    /\ LET r == insert_prelude(sheets[i], script)
       IN  /\ sheets' = [sheets EXCEPT ![i] = r.sheet]
           /\ ret' = Call("insert_prelude", i, "", BadText, script, NoDoc, r.res)
    /\ ran' = <<>>
    /\ Sequential

Next ==
    \/ \E doc \in Docs : Parse(doc)
    \/ \E name \in Names : Eval(1, name)
    \/ \E name \in Names, script \in Scripts : InsertEntry(1, name, script)
    \/ \E script \in PreludeScripts : InsertPrelude(1, script)

Spec == Init /\ [][Next]_vars

----------------------------------------------------------------------------
(* A stack of engines, each constructed from its own document and then     *)
(* read and edited on its own (as the editor does) or read as one stack.   *)

NumLayers == 2

LayerNames == {"a", "b"}

LayerScripts ==
    {Script(TRUE, <<>>, 1, FALSE), Script(TRUE, <<>>, 1, TRUE),
     Script(TRUE, <<"a">>, 0, FALSE)}

LayerDocs ==
    {Doc(PreludeText(TRUE, 2), e) :
        e \in UNION {[D -> LayerScripts] : D \in SUBSET LayerNames}}

\* Sheet::parse(doc) for the next layer of the stack
ParseLayer(doc) ==
    /\ Len(sheets) < NumLayers
    /\ ret.op = "none" \/ (ret.op = "parse" /\ ret.res.err = "Ok")
    /\ \E r \in parse(doc) :
          /\ sheets' = IF r.res.err = "Ok" THEN Append(sheets, r.sheet) ELSE sheets
          /\ ret' = Call("parse", Len(sheets) + 1, "", BadText, NoPrelude, doc, r.res)
    /\ ran' = <<>>
    /\ Sequential

\* layers.eval(name) on the slice of all engines
StackEval(name) ==
    /\ Len(sheets) = NumLayers
    /\ LET r == stack_eval(sheets, name)
       IN  /\ sheets' = r.sheets
           /\ ret' = Call("stack_eval", r.layer, name, BadText, NoPrelude, NoDoc, r.res)
           /\ ran' = r.ran
    /\ Sequential

\* layers.dependencies(name) on the slice of all engines
StackDependencies(name) ==
    /\ Len(sheets) = NumLayers
    /\ out' = stack_dependencies(sheets, name)
    /\ ret' = Call("stack_dependencies", 0, name, BadText, NoPrelude, NoDoc, OkUnit)
    /\ ran' = <<>>
    /\ UNCHANGED <<sheets, conc>>

\* layers.dependents(name) on the slice of all engines
StackDependents(name) ==
    /\ Len(sheets) = NumLayers
    /\ out' \in stack_dependents(sheets, name)
    /\ ret' = Call("stack_dependents", 0, name, BadText, NoPrelude, NoDoc, OkUnit)
    /\ ran' = <<>>
    /\ UNCHANGED <<sheets, conc>>

\* layers.invalidate_cache(name, &[]) on the slice of all engines
StackInvalidate(name) ==
    /\ Len(sheets) = NumLayers
    /\ \E r \in stack_invalidate_cache(sheets, name, <<>>) :
          /\ sheets' = r.sheets
          /\ ret' = Call("stack_invalidate", 0, name, BadText, NoPrelude, NoDoc, r.res)
    /\ ran' = <<>>
    /\ Sequential

NextLayers ==
    \/ \E doc \in LayerDocs : ParseLayer(doc)
    \/ /\ Len(sheets) = NumLayers
       /\ \E i \in 1..NumLayers, name \in LayerNames : Eval(i, name)
    \/ /\ Len(sheets) = NumLayers
       /\ \E i \in 1..NumLayers, name \in LayerNames, script \in LayerScripts :
             InsertEntry(i, name, script)
    \/ \E name \in LayerNames : StackEval(name)
    \/ \E name \in LayerNames : StackDependencies(name)
    \/ \E name \in LayerNames : StackDependents(name)
    \/ \E name \in LayerNames : StackInvalidate(name)

SpecLayers == Init /\ [][NextLayers]_vars

----------------------------------------------------------------------------
(* Threads that share one engine through Arc<RwLock<Sheet>>, as the        *)
(* bindings do: get and insert under read(), insert_prelude under write(). *)
(* A call is a sequence of steps, one for each access to a map of the      *)
(* engine that another thread can observe; a lookup made by a running      *)
(* script is one step. conc.threads holds the position of every thread.    *)

Threads == {1, 2}

MaxCalls == 2

ConcDocs ==
    {Doc(PreludeText(TRUE, 2),
         [n \in {"a", "b"} |-> IF n = "a" THEN Script(TRUE, <<"b">>, 0, FALSE)
                                         ELSE Script(TRUE, <<>>, 1, FALSE)])}

ConcNames == {"a", "b"}

\* the edits the threads make; none of them lets b refer to a
ConcInserts ==
    {<<"a", Script(TRUE, <<"b">>, 0, FALSE)>>, <<"a", Script(TRUE, <<>>, 1, FALSE)>>,
     <<"b", Script(TRUE, <<>>, 1, FALSE)>>, <<"b", Script(TRUE, <<>>, 1, TRUE)>>,
     <<"b", BadText>>}

ConcPreludes == {PreludeText(TRUE, MaxMult)}

Thread(op, pc, name, script, prelude, ast, vals, res, calls) ==
    [op |-> op, pc |-> pc, name |-> name, script |-> script, prelude |-> prelude,
     ast |-> ast, vals |-> vals, res |-> res, calls |-> calls]

IdleThread ==
    Thread("none", "idle", "", BadText, NoPrelude, compile(BadText).ast, <<>>, OkUnit, 0)

InCall(th) == th.pc \notin {"idle", "done"}

\* the thread holds a guard of RwLock::read
HoldsRead(th) == InCall(th) /\ th.op \in {"eval", "insert_entry"}

\* the thread is inside RwLock::write
WaitsForWrite(th) == th.op = "insert_prelude" /\ th.pc = "write"

\* RwLock::read returns: no thread holds the lock for writing, and where
\* the lock of the platform prefers writers, none waits for it
CanRead(c) ==
    c.policy = "readers" \/ \A u \in Threads : ~WaitsForWrite(c.threads[u])

\* RwLock::write returns: no guard of the lock is held
CanWrite(c) == \A u \in Threads : ~HoldsRead(c.threads[u])

\* a variant in which entries.get hands out a copy and holds no guard
HoldsEntriesRefNever(th, name) == FALSE

\* the thread holds the guard of entries.get(name) in build_entry
HoldsEntriesRef(th, name) ==
    th.op = "insert_entry" /\ th.pc \in {"asts", "deps", "invalidate"} /\ th.name = name

\* the thread holds the guard of asts.get(name) in eval
HoldsAstsRef(th, name) ==
    th.op = "eval" /\ th.pc = "lookup" /\ th.name = name

Return(th, res) == [th EXCEPT !.pc = "done", !.res = res]

InitConc ==
    /\ sheets \in {<<r.sheet>> : r \in {x \in UNION {parse(d) : d \in ConcDocs} :
                                           x.res.err = "Ok"}}
    /\ ret = Call("none", 0, "", BadText, NoPrelude, NoDoc, OkUnit)
    /\ ran = <<>>
    /\ out = <<>>
    /\ conc \in {[policy |-> p, threads |-> [t \in Threads |-> IdleThread]] :
                   p \in {"readers", "writers"}}

Step(t, th, sh) ==
    /\ conc' = [conc EXCEPT !.threads[t] = th]
    /\ sheets' = <<sh>>
    /\ UNCHANGED <<ret, ran, out>>

CanBegin(t) ==
    /\ ~InCall(conc.threads[t])
    /\ conc.threads[t].calls < MaxCalls

\* get(name) of the binding: sheet.read(), then Sheet::eval
BeginEval(t, name) ==
    /\ CanBegin(t)
    /\ CanRead(conc)
    /\ Step(t, [IdleThread EXCEPT !.op = "eval", !.pc = "check", !.name = name,
                                  !.calls = conc.threads[t].calls + 1], sheets[1])

\* Sheet::eval up to asts.get: the cycle check and the cache lookup
EvalCheck(t) ==
    LET th == conc.threads[t]
        sh == sheets[1]
    IN  /\ th.op = "eval" /\ th.pc = "check"
        /\ IF check_for_cycles(sh, th.name)
           THEN Step(t, Return(th, Res("CyclicDependency", th.name, UnitVal)), sh)
           ELSE IF th.name \in DOMAIN sh.cache
           THEN Step(t, Return(th, OkRes(sh.cache[th.name])), sh)
           ELSE IF th.name \in DOMAIN sh.asts
           THEN Step(t, [th EXCEPT !.pc = "lookup", !.ast = sh.asts[th.name]], sh)
           ELSE Step(t, Return(th, Res("BadDependency", th.name, UnitVal)), sh)

\* the next call of g in the running script: sheet_.read() and the nested eval
EvalLookup(t) ==
    LET th == conc.threads[t]
    IN  /\ th.op = "eval" /\ th.pc = "lookup"
        /\ Len(th.vals) < Len(th.ast.lits)
        /\ CanRead(conc)
        /\ LET r == g(sheets[1], th.ast.lits[Len(th.vals) + 1])
           IN  Step(t, [th EXCEPT !.vals = Append(th.vals, r.val)], r.sheet)

\* the script ends: eval_ast returns and cache.insert stores its value
EvalStore(t) ==
    LET th == conc.threads[t]
        sh == sheets[1]
        res == finish_ast(merge(sh.prelude_ast, th.ast), th.vals)
    IN  /\ th.op = "eval" /\ th.pc = "lookup"
        /\ Len(th.vals) = Len(th.ast.lits)
        /\ Step(t, Return(th, res),
                IF res.err = "Ok"
                THEN [sh EXCEPT !.cache = Put(sh.cache, th.name, res.val)]
                ELSE sh)

\* insert(name, script) of the binding: sheet.read(), then Sheet::insert_entry
\* up to its compile check
BeginInsert(t, name, script) ==
    /\ CanBegin(t)
    /\ CanRead(conc)
    /\ LET th == [IdleThread EXCEPT !.op = "insert_entry", !.name = name,
                                    !.script = script,
                                    !.calls = conc.threads[t].calls + 1]
       IN  IF compile(script).ok
           THEN Step(t, [th EXCEPT !.pc = "entries"], sheets[1])
           ELSE Step(t, Return(th, Res("BadScript", name, UnitVal)), sheets[1])

\* entries.insert(name, script): waits while a guard of entries.get is held
InsertStore(t) ==
    LET th == conc.threads[t]
        sh == sheets[1]
    IN  /\ th.op = "insert_entry" /\ th.pc = "entries"
        /\ \A u \in Threads \ {t} : ~HoldsEntriesRef(conc.threads[u], th.name)
        /\ Step(t, [th EXCEPT !.pc = "build"],
                [sh EXCEPT !.entries = Put(sh.entries, th.name, th.script)])

\* build_entry: entries.get(name) and the compilation of the text it holds
InsertGet(t) ==
    LET th == conc.threads[t]
        sh == sheets[1]
    IN  /\ th.op = "insert_entry" /\ th.pc = "build"
        /\ Step(t, [th EXCEPT !.pc = "asts",
                              !.ast = compile(sh.entries[th.name]).ast], sh)

\* asts.insert(name, ast): waits while a guard of asts.get is held
InsertAsts(t) ==
    LET th == conc.threads[t]
        sh == sheets[1]
    IN  /\ th.op = "insert_entry" /\ th.pc = "asts"
        /\ \A u \in Threads \ {t} : ~HoldsAstsRef(conc.threads[u], th.name)
        /\ Step(t, [th EXCEPT !.pc = "deps"],
                [sh EXCEPT !.asts = Put(sh.asts, th.name, th.ast)])

\* deps.insert(name, dependencies)
InsertDeps(t) ==
    LET th == conc.threads[t]
        sh == sheets[1]
    IN  /\ th.op = "insert_entry" /\ th.pc = "deps"
        /\ Step(t, [th EXCEPT !.pc = "invalidate"],
                [sh EXCEPT !.deps = Put(sh.deps, th.name, walk_deps(th.ast))])

\* invalidate_cache(name, &[]), the end of build_entry and of insert_entry
InsertInvalidate(t) ==
    LET th == conc.threads[t]
    IN  /\ th.op = "insert_entry" /\ th.pc = "invalidate"
        /\ \E r \in invalidate_cache(sheets[1], th.name, <<>>) :
              Step(t, Return(th, r.res), r.sheet)

\* insert_prelude(script) of the binding: the call of sheet.write()
BeginPrelude(t, script) ==
    /\ CanBegin(t)
    /\ Step(t, [IdleThread EXCEPT !.op = "insert_prelude", !.pc = "write",
                                  !.prelude = script,
                                  !.calls = conc.threads[t].calls + 1], sheets[1])

\* sheet.write() returns and Sheet::insert_prelude runs under the guard
PreludeWrite(t) ==
    LET th == conc.threads[t]
        r == insert_prelude(sheets[1], th.prelude)
    IN  /\ WaitsForWrite(th)
        /\ CanWrite(conc)
        /\ Step(t, Return(th, r.res), r.sheet)

NextConc ==
    \/ \E t \in Threads, name \in ConcNames : BeginEval(t, name)
    \/ \E t \in Threads : EvalCheck(t)
    \/ \E t \in Threads : EvalLookup(t)
    \/ \E t \in Threads : EvalStore(t)
    \/ \E t \in Threads, e \in ConcInserts : BeginInsert(t, e[1], e[2])
    \/ \E t \in Threads : InsertStore(t)
    \/ \E t \in Threads : InsertGet(t)
    \/ \E t \in Threads : InsertAsts(t)
    \/ \E t \in Threads : InsertDeps(t)
    \/ \E t \in Threads : InsertInvalidate(t)
    \/ \E t \in Threads, script \in ConcPreludes : BeginPrelude(t, script)
    \/ \E t \in Threads : PreludeWrite(t)

SpecConc == InitConc /\ [][NextConc]_vars

----------------------------------------------------------------------------
(* The dependency relation as a graph, defined apart from the traversals   *)
(* of the engine.                                                          *)

\* the names in S and every entry that depends on one of them, transitively
RECURSIVE DependentClosure(_, _)
DependentClosure(sh, S) ==
    LET T == S \cup UNION {dependents(sh, n) : n \in S}
    IN  IF T = S THEN S ELSE DependentClosure(sh, T)

\* the names reached from the names in S by one or more steps of deps
RECURSIVE ReachFrom(_, _)
ReachFrom(sh, S) ==
    LET T == S \cup UNION {Range(dependencies(sh, n)) : n \in S}
    IN  IF T = S THEN S ELSE ReachFrom(sh, T)

Reach(sh, name) == ReachFrom(sh, Range(dependencies(sh, name)))

\* some cycle of deps can be reached from name (name itself may be on it)
CycleReachable(sh, name) ==
    \E n \in ReachFrom(sh, {name}) : n \in Reach(sh, n)

Acyclic(sh) == \A n \in DOMAIN sh.deps : n \notin Reach(sh, n)

----------------------------------------------------------------------------
(* C1.  In an engine whose dependency graph is acyclic, once               *)
(* insert_entry(C, script) with a compiling script has returned, the call  *)
(* succeeded and the cache holds no value for C nor for any entry that     *)
(* depends on C directly or transitively; the next eval of each of them    *)
(* executes its script again instead of answering from the cache.          *)
C1_InsertInvalidatesDependents ==
    \A i \in DOMAIN sheets :
        (/\ ret.op = "insert_entry"
         /\ ret.layer = i
         /\ compile(ret.script).ok
         /\ Acyclic(sheets[i]))
        => /\ ret.res.err = "Ok"
           /\ \A n \in DependentClosure(sheets[i], {ret.name}) :
                 /\ n \notin DOMAIN sheets[i].cache
                 /\ LET r == eval(sheets[i], n)
                    IN  r.ran # <<>> /\ r.ran[1] = n

\* insert_entry("c", ...) has returned on the chain a -> b -> c
C1_Witness ==
    /\ ret.op = "insert_entry"
    /\ ret.name = "c"
    /\ ret.res.err = "Ok"
    /\ Len(sheets) = 1
    /\ Acyclic(sheets[1])
    /\ DependentClosure(sheets[1], {"c"}) = {"a", "b", "c"}
    /\ dependencies(sheets[1], "a") = <<"b">>
    /\ dependencies(sheets[1], "b") = <<"c">>

----------------------------------------------------------------------------
\* the engine with nothing cached: evaluating in it re-evaluates every script
\* against the current entries and prelude
Uncached(sh) == [sh EXCEPT !.cache = EmptyMap]

Reevaluated(sh, name) == eval(Uncached(sh), name).res

(* C2.  Cache validity: in every state reached from a successful parse by  *)
(* eval, insert_entry and insert_prelude calls, a value that eval returns  *)
(* from cache[name] equals the value that re-evaluating name against the   *)
(* current entries and prelude produces.                                   *)
C2_CacheValid ==
    \A i \in DOMAIN sheets :
        \A n \in DOMAIN sheets[i].cache :
            LET r == eval(sheets[i], n)
            IN  r.res.err = "Ok" => Reevaluated(sheets[i], n) = r.res

----------------------------------------------------------------------------
(* C3.  insert_entry(name, script) with a script that does not compile     *)
(* returns a script-compile error and leaves entries, compiled forms, deps *)
(* and cache exactly as they were, for every key.                          *)
C3_BadScriptLeavesState ==
    [][(ret'.op = "insert_entry" /\ ~compile(ret'.script).ok)
        => (ret'.res.err = "BadScript" /\ sheets' = sheets)]_vars

\* a script that does not compile was offered for an entry that exists and
\* has a cached value
C3_Witness ==
    /\ ret.op = "insert_entry"
    /\ ret.res.err = "BadScript"
    /\ Len(sheets) = 1
    /\ ret.name \in DOMAIN sheets[1].entries
    /\ ret.name \in DOMAIN sheets[1].cache

(* C4.  When insert_prelude(script) fails to compile, the stored prelude   *)
(* text and the compiled prelude are both those from before the call, the  *)
(* compiled prelude is still the compiled form of the stored text, and the *)
(* error is returned.                                                      *)
C4_FailedPreludeKeepsPrevious ==
    [][(ret'.op = "insert_prelude" /\ ~compile_prelude(ret'.prelude).ok)
        => /\ ret'.res.err = "BadScript"
           /\ \A i \in DOMAIN sheets :
                 /\ sheets'[i].prelude = sheets[i].prelude
                 /\ sheets'[i].prelude_ast = sheets[i].prelude_ast
                 /\ sheets'[i].prelude_ast = compile_prelude(sheets'[i].prelude).ast]_vars

(* C5.  A successful insert_prelude(script) replaces the prelude and its   *)
(* compiled form and leaves the cache empty for every entry, while         *)
(* entries, compiled entry forms and deps are unchanged.                   *)
C5_PreludeReplacedCacheCleared ==
    [][(ret'.op = "insert_prelude" /\ ret'.res.err = "Ok")
        => \A i \in DOMAIN sheets :
              i = ret'.layer =>
                 /\ sheets'[i].prelude = ret'.prelude
                 /\ sheets'[i].prelude_ast = compile_prelude(ret'.prelude).ast
                 /\ sheets'[i].cache = EmptyMap
                 /\ sheets'[i].entries = sheets[i].entries
                 /\ sheets'[i].asts = sheets[i].asts
                 /\ sheets'[i].deps = sheets[i].deps]_vars

\* a prelude has been replaced in an engine that has entries
C5_Witness ==
    /\ ret.op = "insert_prelude"
    /\ ret.res.err = "Ok"
    /\ Len(sheets) = 1
    /\ sheets[1].prelude = ret.prelude
    /\ DOMAIN sheets[1].entries = Names
    /\ sheets[1].cache = EmptyMap

(* C6.  eval(name) fails with a cyclic-dependency error exactly when a     *)
(* cycle of deps can be reached from name; the check comes before the      *)
(* cache lookup, so a cached value is not returned while the cycle exists. *)
C6_CyclicErrorIffCycleReachable ==
    ret.op = "eval" =>
        \A i \in DOMAIN sheets :
            i = ret.layer =>
                /\ (ret.res.err = "CyclicDependency") <=> CycleReachable(sheets[i], ret.name)
                /\ ret.res.err = "CyclicDependency" => ret.res.who = ret.name

\* eval of an entry that has a cached value and is not on the cycle it
\* reaches has returned the cyclic-dependency error
C6_Witness ==
    /\ ret.op = "eval"
    /\ ret.res.err = "CyclicDependency"
    /\ Len(sheets) = 1
    /\ ret.name \in DOMAIN sheets[1].cache
    /\ ret.name \notin Reach(sheets[1], ret.name)

(* C7.  An eval(name) that returns an error stores nothing in cache[name]  *)
(* and neither removes nor changes a value cached for any entry; a later   *)
(* eval of a different entry returns what it would have returned without   *)
(* the failed call.                                                        *)
C7_FailedEvalKeepsCache ==
    [][(ret'.op = "eval" /\ ret'.res.err # "Ok")
        => \A i \in DOMAIN sheets :
              i = ret'.layer =>
                 /\ ret'.name \in DOMAIN sheets'[i].cache
                       => ret'.name \in DOMAIN sheets[i].cache
                 /\ \A m \in DOMAIN sheets[i].cache :
                       /\ m \in DOMAIN sheets'[i].cache
                       /\ sheets'[i].cache[m] = sheets[i].cache[m]
                 /\ \A m \in Names \ {ret'.name} :
                       eval(sheets'[i], m).res = eval(sheets[i], m).res]_vars

\* a script has failed at run time in an engine that holds cached values
C7_Witness ==
    /\ ret.op = "eval"
    /\ ret.res.err = "EvalFailure"
    /\ Len(sheets) = 1
    /\ sheets[1].cache # EmptyMap
    /\ ret.name \notin DOMAIN sheets[1].cache

(* C8.  Cache idempotence: a successful eval(name) leaves its value in     *)
(* cache[name]; no eval removes or changes a cached value; and an eval of  *)
(* a name that is cached and reaches no cycle returns the cached value,    *)
(* executes no script and leaves the cache unchanged.  Hence with no       *)
(* insert_entry or insert_prelude in between, every further eval(name)     *)
(* returns the same value without executing the script again.              *)
C8_CacheIdempotence ==
    [][ret'.op = "eval"
        => \A i \in DOMAIN sheets :
              i = ret'.layer =>
                 /\ ret'.res.err = "Ok"
                       => /\ ret'.name \in DOMAIN sheets'[i].cache
                          /\ sheets'[i].cache[ret'.name] = ret'.res.val
                 /\ sheets'[i].deps = sheets[i].deps
                 /\ \A m \in DOMAIN sheets[i].cache :
                       /\ m \in DOMAIN sheets'[i].cache
                       /\ sheets'[i].cache[m] = sheets[i].cache[m]
                 /\ (ret'.name \in DOMAIN sheets[i].cache
                        /\ ~CycleReachable(sheets[i], ret'.name))
                       => /\ ret'.res = OkRes(sheets[i].cache[ret'.name])
                          /\ ran' = <<>>
                          /\ sheets' = sheets]_vars

\* the eval of an entry has been answered from the cache
C8_Witness ==
    /\ ret.op = "eval"
    /\ ret.res.err = "Ok"
    /\ ran = <<>>
    /\ Len(sheets) = 1
    /\ ret.name \in DOMAIN sheets[1].cache
    /\ dependencies(sheets[1], ret.name) # <<>>

----------------------------------------------------------------------------
\* what a definition document says statically: the entries that compile,
\* their literal references and the names referenced but not defined
DocSheet(doc) ==
    LET good == {n \in DOMAIN doc.entries : compile(doc.entries[n]).ok}
    IN  [from_str(doc) EXCEPT
            !.deps = [n \in good |-> walk_deps(compile(doc.entries[n]).ast)]]

Missing(doc) ==
    {d \in UNION {Range(DocSheet(doc).deps[n]) : n \in DOMAIN DocSheet(doc).deps} :
        d \notin DOMAIN doc.entries}

AllCompile(doc) ==
    /\ compile_prelude(doc.prelude).ok
    /\ \A n \in DOMAIN doc.entries : compile(doc.entries[n]).ok

(* C9 as claimed.  parse of a definition in which some entry statically    *)
(* references a name that has no entry fails with a missing-dependency     *)
(* error naming that name and returns no engine; in every engine parse     *)
(* returns, every name in every deps list is a key of entries.             *)
C9_MissingDependencyError ==
    ret.op = "parse" =>
        /\ Missing(ret.doc) # {}
              => /\ sheets = <<>>
                 /\ ret.res.err = "BadDependency"
                 /\ ret.res.who \in Missing(ret.doc)
        /\ ret.res.err = "Ok"
              => /\ Len(sheets) = 1
                 /\ \A p \in DOMAIN sheets[1].deps :
                       Range(sheets[1].deps[p]) \subseteq DOMAIN sheets[1].entries

(* C9 as amended.  parse of such a definition fails and returns no engine; *)
(* a missing-dependency error it returns names a referenced name that has  *)
(* no entry, and that is the error returned when the prelude and every     *)
(* entry compile and the references form no cycle (otherwise the           *)
(* script-compile or cyclic-dependency error met first is returned); in    *)
(* every engine parse returns, every name in every deps list is a key of   *)
(* entries.                                                                *)
C9_MissingDependencyFails ==
    ret.op = "parse" =>
        /\ Missing(ret.doc) # {}
              => /\ sheets = <<>>
                 /\ ret.res.err \in {"BadDependency", "BadScript", "CyclicDependency"}
                 /\ ret.res.err = "BadDependency" => ret.res.who \in Missing(ret.doc)
                 /\ (AllCompile(ret.doc) /\ Acyclic(DocSheet(ret.doc)))
                       => ret.res.err = "BadDependency"
                 /\ ret.res.err = "BadScript" => ~AllCompile(ret.doc)
                 /\ ret.res.err = "CyclicDependency" => ~Acyclic(DocSheet(ret.doc))
        /\ ret.res.err = "Ok"
              => /\ Len(sheets) = 1
                 /\ \A p \in DOMAIN sheets[1].deps :
                       Range(sheets[1].deps[p]) \subseteq DOMAIN sheets[1].entries

\* parse has rejected, with the missing-dependency error, a definition
\* whose scripts all compile and in which an entry references a missing name
C9_Witness ==
    /\ ret.op = "parse"
    /\ ret.res.err = "BadDependency"
    /\ AllCompile(ret.doc)
    /\ ret.res.who \in Missing(ret.doc)
    /\ DOMAIN ret.doc.entries # {}
    /\ sheets = <<>>

----------------------------------------------------------------------------
\* the layers whose own eval(name) succeeds
Answering(shs, name) == {i \in DOMAIN shs : eval(shs[i], name).res.err = "Ok"}

Highest(S) == CHOOSE i \in S : \A j \in S : j <= i

(* C10.  eval(name) on a stack returns the result of the highest-priority  *)
(* layer whose own eval(name) succeeds, and fails, with a                  *)
(* missing-dependency error naming name, only when the eval of every       *)
(* layer fails.                                                            *)
C10_StackEvalHighestWins ==
    [][ret'.op = "stack_eval"
        => LET ok == Answering(sheets, ret'.name)
           IN  IF ok = {}
               THEN /\ ret'.res = Res("BadDependency", ret'.name, UnitVal)
                    /\ ret'.layer = 0
               ELSE /\ ret'.layer = Highest(ok)
                    /\ ret'.res = eval(sheets[Highest(ok)], ret'.name).res]_vars

\* the stack has answered from the higher layer although the lower layer
\* defines the name with another value
C10_Witness ==
    /\ ret.op = "stack_eval"
    /\ ret.res.err = "Ok"
    /\ Len(sheets) = NumLayers
    /\ ret.layer = NumLayers
    /\ eval(sheets[1], ret.name).res.err = "Ok"
    /\ eval(sheets[1], ret.name).res # ret.res

----------------------------------------------------------------------------
(* C11: dependencies(name) and dependents(name) on a stack of layers       *)
(* return exactly what the highest-priority layer whose entries hold name  *)
(* returns, whatever the lower layers define or depend on, and the empty   *)
(* list when no layer defines name.                                        *)

Defining(name) == {i \in DOMAIN sheets : name \in DOMAIN sheets[i].entries}

C11_StackListsFromHighestLayer ==
    /\ ret.op = "stack_dependencies" =>
          IF Defining(ret.name) = {}
          THEN out = <<>>
          ELSE out = dependencies(sheets[Highest(Defining(ret.name))], ret.name)
    /\ ret.op = "stack_dependents" =>
          IF Defining(ret.name) = {}
          THEN out = <<>>
          ELSE /\ Range(out) =
                    dependents(sheets[Highest(Defining(ret.name))], ret.name)
               /\ Len(out) = Cardinality(Range(out))

\* two layers define the name and the lower one would have answered
\* with another list
C11_Witness ==
    /\ ret.op = "stack_dependencies"
    /\ Defining(ret.name) = 1..NumLayers
    /\ dependencies(sheets[1], ret.name) # out
    /\ \E p \in DOMAIN sheets[1].deps : ret.name \in Range(sheets[1].deps[p])

----------------------------------------------------------------------------
(* C12: after invalidate_cache(name, []) on a stack of layers has          *)
(* returned, with success or with an error, no layer holds a cached value  *)
(* for name or for an entry of that layer that depends on name,            *)
(* transitively.                                                           *)

C12_StackInvalidateEveryLayer ==
    ret.op = "stack_invalidate" =>
        \A i \in DOMAIN sheets :
            DependentClosure(sheets[i], {ret.name}) \cap DOMAIN sheets[i].cache = {}

----------------------------------------------------------------------------
(* C13: for every engine reached from a successful parse by insert_entry   *)
(* and insert_prelude calls, parsing the serialized engine succeeds and    *)
(* gives an engine with the same entries, the same prelude and the same    *)
(* eval result for every entry.                                            *)

C13_RoundTrip ==
    sheets # <<>> =>
        \A r \in parse(to_string(sheets[1])) :
            /\ r.res.err = "Ok"
            /\ r.sheet.entries = sheets[1].entries
            /\ r.sheet.prelude = sheets[1].prelude
            /\ \A n \in entries(sheets[1]) :
                   eval(r.sheet, n).res = eval(sheets[1], n).res

----------------------------------------------------------------------------
(* C14: an eval that meets a cyclic dependency returns a cyclic-dependency *)
(* error: on one engine when a cycle is reachable from the requested name, *)
(* on a stack of layers when a cycle is reachable from it in the highest   *)
(* layer that defines it. No other error kind, no unit value and no value  *)
(* of another layer takes its place.                                       *)

C14_CycleErrorsReported ==
    /\ ret.op = "eval" =>
          (CycleReachable(sheets[ret.layer], ret.name) =>
              ret.res.err = "CyclicDependency")
    /\ ret.op = "stack_eval" =>
          ((/\ Defining(ret.name) # {}
            /\ CycleReachable(sheets[Highest(Defining(ret.name))], ret.name)) =>
              ret.res.err = "CyclicDependency")

----------------------------------------------------------------------------
(* C15: over every deps relation, with self-loops and longer cycles,       *)
(* check_for_cycles(start) ends with its boolean and                       *)
(* invalidate_cache(name, []) ends with success or a cyclic-dependency     *)
(* error. The recursion of check_for_cycles is never deeper than the       *)
(* number of entries plus one; the recursion of invalidate_cache is never  *)
(* deeper than twice the number of entries plus one, because a dependent   *)
(* is compared with the parents of the visited name and not with the name  *)
(* itself, so that every name on the path can be entered twice.            *)

NumEntries(sh) == Cardinality(DOMAIN sh.entries)

C15_TraversalsTerminate ==
    sheets # <<>> =>
        \A n \in Names :
            /\ check_for_cycles_depth(sheets[1], <<n>>).found
                  = check_for_cycles(sheets[1], n)
            /\ check_for_cycles_depth(sheets[1], <<n>>).depth
                  <= NumEntries(sheets[1]) + 1
            /\ \A r \in invalidate_cache_depth(sheets[1], n, <<>>) :
                   r.depth <= 2 * NumEntries(sheets[1]) + 1
            /\ {r.err : r \in invalidate_cache_depth(sheets[1], n, <<>>)}
                  = {r.res.err # "Ok" : r \in invalidate_cache(sheets[1], n, <<>>)}

\* the claim as stated: one bound, entries plus one, for both traversals
C15_DepthAtMostEntriesPlusOne ==
    sheets # <<>> =>
        \A n \in Names :
            /\ check_for_cycles_depth(sheets[1], <<n>>).depth
                  <= NumEntries(sheets[1]) + 1
            /\ \A r \in invalidate_cache_depth(sheets[1], n, <<>>) :
                   r.depth <= NumEntries(sheets[1]) + 1

\* an insert_entry has just run its invalidation over a graph with a
\* self-loop and a longer cycle, and some traversal gets as deep as the
\* number of entries plus one
C15_Witness ==
    /\ ret.op = "insert_entry"
    /\ ret.res.err = "CyclicDependency"
    /\ \E n \in DOMAIN sheets[1].deps : n \in Range(sheets[1].deps[n])
    /\ \E n \in DOMAIN sheets[1].deps :
          /\ n \notin Range(sheets[1].deps[n])
          /\ n \in Reach(sheets[1], n)
    /\ \E n \in Names : \E r \in invalidate_cache_depth(sheets[1], n, <<>>) :
          r.depth = NumEntries(sheets[1]) + 1

----------------------------------------------------------------------------
(* C18 as claimed: parse of a definition whose static dependency graph     *)
(* has a cycle returns the cyclic-dependency error and no engine, whatever *)
(* the order in which the entries are built.                               *)
C18_CyclicDefinitionCyclicError ==
    (ret.op = "parse" /\ ~Acyclic(DocSheet(ret.doc)))
        => (sheets = <<>> /\ ret.res.err = "CyclicDependency")

(* C18 as amended: parse of such a definition fails and returns no engine, *)
(* with the cyclic-dependency error when the prelude and every entry       *)
(* compile and with that or the script-compile error otherwise; an engine  *)
(* parse returns is acyclic. insert_entry returns the cyclic-dependency    *)
(* error whenever the entry is on a cycle once its script is stored, and   *)
(* an insert_entry that returns success keeps an acyclic engine acyclic;   *)
(* no other call changes deps, and eval on an acyclic engine reports no    *)
(* cyclic dependency. So the engines reached from a successful parse by    *)
(* insert_entry calls that all returned success are acyclic.               *)
C18_EagerCycleRejection ==
    [][/\ ret'.op = "parse" =>
             /\ ~Acyclic(DocSheet(ret'.doc)) =>
                   /\ sheets' = <<>>
                   /\ ret'.res.err \in {"CyclicDependency", "BadScript"}
                   /\ AllCompile(ret'.doc) => ret'.res.err = "CyclicDependency"
             /\ ret'.res.err = "Ok" => Acyclic(sheets'[1])
       /\ (ret'.op = "insert_entry" /\ compile(ret'.script).ok) =>
             /\ ret'.name \in Reach(sheets'[1], ret'.name)
                   => ret'.res.err = "CyclicDependency"
             /\ (ret'.res.err = "Ok" /\ Acyclic(sheets[1])) => Acyclic(sheets'[1])
       /\ ret'.op \in {"eval", "insert_prelude"} =>
             /\ sheets'[1].deps = sheets[1].deps
             /\ (ret'.op = "eval" /\ Acyclic(sheets[1]))
                   => ret'.res.err # "CyclicDependency"
      ]_vars

\* insert_entry has refused, with the cyclic-dependency error, a script
\* that closes a cycle through another entry
C18_Witness ==
    /\ ret.op = "insert_entry"
    /\ ret.res.err = "CyclicDependency"
    /\ ret.name \notin Range(sheets[1].deps[ret.name])
    /\ ret.name \in Reach(sheets[1], ret.name)
    /\ \A n \in DOMAIN sheets[1].deps :
          n \in Reach(sheets[1], n) => ret.name \in Reach(sheets[1], n)

----------------------------------------------------------------------------
(* C19: when insert_entry(name, script) returns the cyclic-dependency      *)
(* error, the edit is committed: entries[name], compiled[name] and         *)
(* deps[name] hold the data of the new script and no other key of them     *)
(* has changed. The invalidation has removed cache[name] and stopped at    *)
(* the cycle it reports: a value it has left in the cache is the value     *)
(* from before the call, and only dependents of name have lost theirs.     *)
C19_CyclicInsertIsCommitted ==
    [][(ret'.op = "insert_entry" /\ ret'.res.err = "CyclicDependency") =>
          LET before == sheets[ret'.layer]
              after == sheets'[ret'.layer]
              ast == compile(ret'.script).ast
          IN  /\ compile(ret'.script).ok
              /\ after.entries = Put(before.entries, ret'.name, ret'.script)
              /\ after.asts = Put(before.asts, ret'.name, ast)
              /\ after.deps = Put(before.deps, ret'.name, walk_deps(ast))
              /\ ret'.name \notin DOMAIN after.cache
              /\ \A m \in DOMAIN after.cache :
                    m \in DOMAIN before.cache /\ after.cache[m] = before.cache[m]
              /\ DOMAIN before.cache \ DOMAIN after.cache
                    \subseteq DependentClosure(after, {ret'.name})
              /\ ret'.res.who \in DependentClosure(after, {ret'.name})
              /\ ret'.res.who \in Reach(after, ret'.res.who)
      ]_vars

\* insert_entry has replaced an entry by a script that closes a cycle, and
\* a dependent of the entry still has the value cached before the call
C19_Witness ==
    /\ ret.op = "insert_entry"
    /\ ret.res.err = "CyclicDependency"
    /\ sheets[1].entries[ret.name] = ret.script
    /\ sheets[1].deps[ret.name] = walk_deps(compile(ret.script).ast)
    /\ \E m \in DependentClosure(sheets[1], {ret.name}) \ {ret.name} :
          m \in DOMAIN sheets[1].cache

----------------------------------------------------------------------------
\* no thread is inside a call
AllReturned == \A t \in Threads : ~InCall(conc.threads[t])

(* C16: when eval and insert_entry calls of threads that hold shared       *)
(* access have interleaved in any order of their map accesses and all have *)
(* returned, every cached value that eval returns equals the value that    *)
(* re-evaluating the entry gives; an eval of a dependent of B that began   *)
(* before insert_entry(B, script) leaves no value computed from the old    *)
(* script of B in the cache.                                               *)
C16_ConcurrentCacheValid ==
    AllReturned =>
        \A n \in DOMAIN sheets[1].cache :
            LET r == eval(sheets[1], n)
            IN  r.res.err = "Ok" => Reevaluated(sheets[1], n) = r.res

(* C17: when two threads that hold shared access have called insert_entry  *)
(* on one name with different scripts that compile, in any interleaving of *)
(* their map writes, then after both calls have returned compiled[name]    *)
(* and deps[name] are those of the script that entries[name] holds.        *)
C17_ConcurrentInsertsLockStep ==
    AllReturned =>
        \A n \in DOMAIN sheets[1].entries :
            /\ n \in DOMAIN sheets[1].asts
            /\ n \in DOMAIN sheets[1].deps
            /\ sheets[1].asts[n] = compile(sheets[1].entries[n]).ast
            /\ sheets[1].deps[n] = walk_deps(compile(sheets[1].entries[n]).ast)

\* two insert_entry calls on one name with different scripts that compile
\* have both returned
C17_Witness ==
    /\ \A t \in Threads :
          /\ conc.threads[t].op = "insert_entry"
          /\ conc.threads[t].pc = "done"
          /\ conc.threads[t].res.err = "Ok"
    /\ conc.threads[1].name = conc.threads[2].name
    /\ walk_deps(compile(conc.threads[1].script).ast)
          # walk_deps(compile(conc.threads[2].script).ast)

----------------------------------------------------------------------------
\* the thread is inside a call and cannot take its next step
Blocked(t) ==
    LET th == conc.threads[t]
    IN  \/ /\ th.op = "eval" /\ th.pc = "lookup"
           /\ Len(th.vals) < Len(th.ast.lits)
           /\ ~CanRead(conc)
        \/ WaitsForWrite(th) /\ ~CanWrite(conc)
        \/ /\ th.op = "insert_entry" /\ th.pc = "entries"
           /\ \E u \in Threads \ {t} : HoldsEntriesRef(conc.threads[u], th.name)
        \/ /\ th.op = "insert_entry" /\ th.pc = "asts"
           /\ \E u \in Threads \ {t} : HoldsAstsRef(conc.threads[u], th.name)

(* C20: with get and insert under shared access and insert_prelude under   *)
(* exclusive access no state is reached in which the threads inside calls  *)
(* all wait for one another, so every call returns; an eval whose script   *)
(* makes a nested lookup, taking shared access again while its caller      *)
(* holds it, completes also while another thread waits for exclusive       *)
(* access.                                                                 *)
C20_NoDeadlock ==
    ~ /\ \E t \in Threads : InCall(conc.threads[t])
      /\ \A t \in Threads : InCall(conc.threads[t]) => Blocked(t)

----------------------------------------------------------------------------
\* the names in the deps list of name that have no entry
Undefined(sh, name) ==
    {d \in Range(dependencies(sh, name)) : d \notin DOMAIN sh.entries}

(* C21 as claimed: insert_entry(name, script) with a script that compiles  *)
(* and refers to a name that has no entry returns success.                 *)
C21_UndefinedReferenceReturnsOk ==
    (/\ ret.op = "insert_entry"
     /\ compile(ret.script).ok
     /\ Undefined(sheets[ret.layer], ret.name) # {})
        => ret.res.err = "Ok"

(* C21 as amended: only parse checks that referenced names exist.          *)
(* insert_entry(name, script) with a script that compiles and refers to a  *)
(* name that has no entry stores the script and leaves that name in        *)
(* deps[name]; it returns success, or the cyclic-dependency error when the *)
(* invalidation meets a cycle, and success whenever deps is acyclic after  *)
(* the call. An eval(name) of an entry whose deps list holds a name with   *)
(* no entry returns no missing-dependency error: the nested lookup that    *)
(* fails gives the unit value, which is the result when the script is that *)
(* lookup alone.                                                           *)
C21_UndefinedReferenceAccepted ==
    [][/\ (/\ ret'.op = "insert_entry"
           /\ compile(ret'.script).ok
           /\ \E d \in Range(walk_deps(compile(ret'.script).ast)) :
                 d \notin DOMAIN sheets[ret'.layer].entries \cup {ret'.name})
          => LET after == sheets'[ret'.layer]
             IN  /\ ret'.res.err \in {"Ok", "CyclicDependency"}
                 /\ Acyclic(after) => ret'.res.err = "Ok"
                 /\ after.entries[ret'.name] = ret'.script
                 /\ after.deps[ret'.name] = walk_deps(compile(ret'.script).ast)
                 /\ Undefined(after, ret'.name) # {}
       /\ (/\ ret'.op = "eval"
           /\ ret'.name \in DOMAIN sheets[ret'.layer].entries
           /\ Undefined(sheets[ret'.layer], ret'.name) # {})
          => /\ ret'.res.err # "BadDependency"
             /\ (ret'.res.err = "Ok" /\ Len(sheets[ret'.layer].deps[ret'.name]) = 1)
                   => ret'.res.val = UnitVal
      ]_vars

\* eval of an entry whose script is a lookup of a name that has no entry
\* has run the script and returned the unit value
C21_Witness ==
    /\ ret.op = "eval"
    /\ ret.res = OkUnit
    /\ ran = <<ret.name>>
    /\ Undefined(sheets[1], ret.name) # {}
    /\ ret.name \in DOMAIN sheets[1].cache

====
